---- MODULE Spec2Model ----
(***************************************************************************)
(* A model of the HAROS visualiser's computation-graph view                *)
(* (viz/js/views/ros.js) and of its launch-file feature tree               *)
(* (viz/js/views/collapsible-tree.js).                                     *)
(*                                                                         *)
(* Several specifications share the module:                                *)
(*   SpecName     the pure function RosStaticGraph._nameMatch;             *)
(*   SpecGraph    RosStaticGraph: setModel, selection, focus, visibility;  *)
(*   SpecQuery    query responses and the highlights they leave;           *)
(*   SpecRace     queries in flight and the order of their responses;      *)
(*   SpecUnknown  setModel's candidate lists (_connectUnknown);            *)
(*   SpecTree     MyTree (roslaunch/arg/value), RosSystemView's request;   *)
(*   SpecFeature  MyTree (value/userValue).                                *)
(* Each specification leaves the variables of the others at their initial  *)
(* values.                                                                 *)
(***************************************************************************)
EXTENDS Integers, Sequences, FiniteSets, TLC

\* JavaScript's null / undefined, for fields that hold a string or nothing.
NULL == "null"

(***************************************************************************)
(* Bounds.                                                                 *)
(***************************************************************************)
\* longest name, in segments after the leading '/'
MaxLen == 4
\* most nodes and most links of a configuration
MaxNodes == 2
MaxLinks == 2
\* args of the first launch file, and values of each arg
MaxArgs == 2
MaxValues == 2
\* most matched objects of a query response
MaxObjects == 2
\* most queries submitted in one run, and most objects each of them matches
MaxQueries == 2
MaxMatched == 1
\* most topics, most services and most parameters of a named configuration
MaxUnknown == 2

VARIABLES
    a1,         \* first name given to _nameMatch, as path segments
    a2,         \* second name given to _nameMatch
    matched     \* <<>> before the call, <<result>> after it

nameVars == <<a1, a2, matched>>

VARIABLES
    model,        \* RosStaticGraph.model: <<>> or <<configuration>>
    graph,        \* this.graph: [nodes: set of ids, edges: set of <<v, w>>]
    nodeVisible,  \* visible of the ResourceNode of each graph node
    edgeVisible,  \* visible of the edge object of each graph edge
    showParams,   \* this.showParams
    focus,        \* id of this.focus, NoNode for null
    selection,    \* id of this.selection, NoNode for null
    selectedClass, \* ids of the nodes whose element has the class "selected"
    queries,      \* the queries maps: the <<node id, qid>> and <<edge, qid>>
                  \* whose queries[qid] is true
    queryObject,  \* the nodes and edges whose element has the class
                  \* "query-object"
    response,     \* <<the /cg/query response processed in the last step>>
    visible,      \* this.visible, set by RosBoard.render
    layout,       \* what updateVisibility returned in the last step
    updated,      \* the last step ran updateVisibility
    collection    \* RosBoard.collection: the configuration the server sent

graphVars == <<model, graph, nodeVisible, edgeVisible, showParams, focus,
               selection, selectedClass, queries, queryObject, response,
               visible, layout, updated, collection>>

VARIABLES
    fm,           \* the feature model as fetched: what the clicks never change
    tree,         \* MyTree: data.selected, ui.selected, ui.previousValue,
                  \* ui.value and ui.name of the items
    request       \* <<the body cgRequestData built in the last step>> or <<>>

treeVars == <<fm, tree, request>>

VARIABLES
    features,     \* the feature model of the first MyTree as fetched: xor and
                  \* resolved of the items
    ft            \* first MyTree: data.value, data.userValue, data.inputValue
                  \* of the items and the items that are expanded

featureVars == <<features, ft>>

VARIABLES
    queryInputVisible,  \* RosStaticGraph.queryInputVisible
    inflight,     \* the /cg/query requests sent whose response has not come
    lastQuery,    \* <<the request of the query submitted last>> or <<>>
    raced         \* the query submitted last was sent while another request
                  \* was in flight

raceVars == <<queryInputVisible, inflight, lastQuery, raced>>

VARIABLES
    named,        \* the topics, services and parameters setModel was given:
                  \* per kind, uid -> [name, type, linkTypes]
    candidates    \* <<>> before setModel; after it <<per kind, uid -> the
                  \* candidates attribute of the resource's model>>

unknownVars == <<named, candidates>>

vars == <<nameVars, graphVars, treeVars, featureVars, raceVars, unknownVars>>

\* what the actions of one specification leave alone
nonNameVars == <<graphVars, treeVars, featureVars, raceVars, unknownVars>>
nonGraphVars == <<nameVars, treeVars, featureVars, raceVars, unknownVars>>
nonTreeVars == <<nameVars, graphVars, featureVars, raceVars, unknownVars>>
nonFeatureVars == <<nameVars, graphVars, treeVars, raceVars, unknownVars>>
\* what a step of the race leaves alone besides the graph view
nonRaceVars == <<nameVars, treeVars, featureVars, unknownVars>>
nonUnknownVars == <<nameVars, graphVars, treeVars, featureVars, raceVars>>

(***************************************************************************)
(* The views after construction, before anything is fetched.               *)
(***************************************************************************)
\* the id of no node: this.focus and this.selection when they are null
NoNode == <<"none", 0>>

\* a graph without nodes
EmptyGraph == [nodes |-> {}, edges |-> {}]

\* a string field that is null
NoText == <<>>

\* an index field that is null or undefined
NoIndex == -1

\* no name is being matched
InitNameIdle ==
    /\ a1 = <<>>
    /\ a2 = <<>>
    /\ matched = <<>>

InitGraphView ==
    /\ model = <<>>
    /\ graph = EmptyGraph
    /\ nodeVisible = <<>>
    /\ edgeVisible = <<>>
    /\ showParams = FALSE
    /\ focus = NoNode
    /\ selection = NoNode
    /\ selectedClass = {}
    /\ queries = [nodes |-> {}, edges |-> {}]
    /\ queryObject = [nodes |-> {}, edges |-> {}]
    /\ response = <<>>
    /\ visible = FALSE
    /\ layout = EmptyGraph
    /\ updated = FALSE

\* the graph view after construction, no configuration fetched
InitGraphIdle ==
    /\ InitGraphView
    /\ collection = <<>>

\* no feature model fetched
InitTreeIdle ==
    /\ fm = [resolved |-> <<>>, defaultValue |-> NoIndex, hasValue |-> FALSE]
    /\ tree = [data |-> <<>>, ui |-> <<>>, previousValue |-> <<>>,
               value |-> <<>>, name |-> <<>>]
    /\ request = <<>>

\* no feature model fetched by the first MyTree
InitFeatureIdle ==
    /\ features = [xor |-> <<>>, resolved |-> <<>>]
    /\ ft = [value |-> <<>>, userValue |-> <<>>, inputValue |-> <<>>,
             expanded |-> {}]

\* the query input bar after construction, no query submitted
InitRaceIdle ==
    /\ queryInputVisible = FALSE
    /\ inflight = {}
    /\ lastQuery = <<>>
    /\ raced = FALSE

\* no named configuration given to setModel
InitUnknownIdle ==
    /\ named = <<>>
    /\ candidates = <<>>

(***************************************************************************)
(* Names.  A ROS name such as "/ns/?/a" is kept as the tuple of its        *)
(* segments <<"ns", "?", "a">>; split gives what name.split("/") gives,    *)
(* an array that starts with the empty string before the leading '/'.      *)
(***************************************************************************)
Segments == {"ns", "a", "b", "?"}

RECURSIVE SeqsUpTo(_, _)
SeqsUpTo(S, n) ==
    IF n = 0 THEN {<<>>}
    ELSE LET shorter == SeqsUpTo(S, n - 1)
         IN  shorter \cup {Append(s, x) : s \in shorter, x \in S}

Names == SeqsUpTo(Segments, MaxLen) \ {<<>>}

split(name) == <<"">> \o name

\* a[i] of a JavaScript array (indices from 0)
At(a, i) == a[i + 1]

\* faulty variant: a '?' of the first name must take at least one segment
RECURSIVE nameMatchSkipsOne(_, _, _, _)
nameMatchSkipsOne(n1, k1, n2, k2) ==
    LET len1 == Len(n1)
        len2 == Len(n2)
    IN  IF k1 < len1 /\ k2 < len2
        THEN IF At(n1, k1) = "?"
             THEN IF k1 = len1 - 1 THEN TRUE
                  ELSE \E k \in (k2 + 1)..(len2 - 1) :
                          nameMatchSkipsOne(n1, k1 + 1, n2, k)
             ELSE IF At(n2, k2) = "?"
             THEN IF k2 = len2 - 1 THEN TRUE
                  ELSE \E k \in k1..(len1 - 1) :
                          nameMatchSkipsOne(n1, k, n2, k2 + 1)
             ELSE IF At(n1, k1) # At(n2, k2) THEN FALSE
             ELSE nameMatchSkipsOne(n1, k1 + 1, n2, k2 + 1)
        ELSE k1 = len1 /\ k2 = len2

\* faulty variant: a '?' of the second name does not look at the rest of the first
RECURSIVE nameMatchOneSided(_, _, _, _)
nameMatchOneSided(n1, k1, n2, k2) ==
    LET len1 == Len(n1)
        len2 == Len(n2)
    IN  IF k1 < len1 /\ k2 < len2
        THEN IF At(n1, k1) = "?"
             THEN IF k1 = len1 - 1 THEN TRUE
                  ELSE \E k \in k2..(len2 - 1) :
                          nameMatchOneSided(n1, k1 + 1, n2, k)
             ELSE IF At(n2, k2) = "?"
             THEN IF k2 = len2 - 1 THEN TRUE
                  ELSE nameMatchOneSided(n1, k1, n2, k2 + 1)
             ELSE IF At(n1, k1) # At(n2, k2) THEN FALSE
             ELSE nameMatchOneSided(n1, k1 + 1, n2, k2 + 1)
        ELSE k1 = len1 /\ k2 = len2

\* RosStaticGraph._nameMatch: the for loop from (i, j) = (k1, k2); one
\* iteration either returns or goes on from (i + 1, j + 1).
RECURSIVE _nameMatch(_, _, _, _)
_nameMatch(n1, k1, n2, k2) ==
    LET len1 == Len(n1)
        len2 == Len(n2)
    IN  IF k1 < len1 /\ k2 < len2
        THEN IF At(n1, k1) = "?"
             THEN IF k1 = len1 - 1 THEN TRUE
                  ELSE \E k \in k2..(len2 - 1) : _nameMatch(n1, k1 + 1, n2, k)
             ELSE IF At(n2, k2) = "?"
             THEN IF k2 = len2 - 1 THEN TRUE
                  ELSE \E k \in k1..(len1 - 1) : _nameMatch(n1, k, n2, k2 + 1)
             ELSE IF At(n1, k1) # At(n2, k2) THEN FALSE
             ELSE _nameMatch(n1, k1 + 1, n2, k2 + 1)
        ELSE k1 = len1 /\ k2 = len2

(***************************************************************************)
(* The computation graph (RosStaticGraph).                                 *)
(*                                                                         *)
(* A graph node is named by the resource it shows, <<resourceType, uid>>:  *)
(* _addResource gives every resource a fresh Backbone cid as id and keeps  *)
(* the uid -> model mapping of its kind, so ids and <<type, uid>> pairs    *)
(* correspond one to one while the uids of a kind are distinct.            *)
(***************************************************************************)
resourceType(id) == id[1]

LinkKinds == {"publishers", "subscribers", "servers", "clients",
              "reads", "writes"}

\* the uids of the topics, services and parameters a configuration may hold
TopicUids == {1}
ServiceUids == {1}
ParamUids == {1}

\* a link: its list in model.links, its node_uid and the topic_uid,
\* service_uid or param_uid of its other end
LinksOfKind(kind, nodes, res) ==
    {[kind |-> kind, node_uid |-> n, uid |-> r] : n \in nodes, r \in res}

AllLinks(nodes, topics, services, params) ==
    LinksOfKind("publishers", nodes, topics)
        \cup LinksOfKind("subscribers", nodes, topics)
        \cup LinksOfKind("servers", nodes, services)
        \cup LinksOfKind("clients", nodes, services)
        \cup LinksOfKind("reads", nodes, params)
        \cup LinksOfKind("writes", nodes, params)

\* the subsets of S of at most k elements
RECURSIVE SubsetsUpTo(_, _)
SubsetsUpTo(S, k) ==
    IF k = 0 THEN {{}}
    ELSE LET smaller == SubsetsUpTo(S, k - 1)
         IN  smaller \cup {x \cup {e} : x \in smaller, e \in S}

\* the configurations a server can send: resources with distinct uids and
\* links between resources that exist
Configurations ==
    UNION { { [nodes |-> 1..nn, topics |-> nt, services |-> ns,
               parameters |-> np, links |-> ls] :
                 ls \in SubsetsUpTo(AllLinks(1..nn, nt, ns, np), MaxLinks) } :
            nn \in 0..MaxNodes, nt \in SUBSET TopicUids,
            ns \in SUBSET ServiceUids, np \in SUBSET ParamUids }

hasResources(config) ==
    config.nodes \cup config.topics \cup config.services
        \cup config.parameters # {}

\* addNode, addTopic, addService, addParameter through _addResource:
\* one graph node per resource
addNode(uid) == <<"node", uid>>
addTopic(uid) == <<"topic", uid>>
addService(uid) == <<"service", uid>>
addParameter(uid) == <<"param", uid>>

\* faulty variant: a subscriber's edge runs from the node to the topic
addSubscriberReversed(link) == <<addNode(link.node_uid), addTopic(link.uid)>>

\* faulty variant: a read's edge runs from the node to the parameter
addReadReversed(link) == <<addNode(link.node_uid), addParameter(link.uid)>>

\* the <<source, target>> each add<Link> hands to _addEdge
addPublisher(link) == <<addNode(link.node_uid), addTopic(link.uid)>>
addSubscriber(link) == <<addTopic(link.uid), addNode(link.node_uid)>>
addClient(link) == <<addNode(link.node_uid), addService(link.uid)>>
addServer(link) == <<addService(link.uid), addNode(link.node_uid)>>
addWrite(link) == <<addNode(link.node_uid), addParameter(link.uid)>>
addRead(link) == <<addParameter(link.uid), addNode(link.node_uid)>>

_addEdge(link) ==
    CASE link.kind = "publishers"  -> addPublisher(link)
      [] link.kind = "subscribers" -> addSubscriber(link)
      [] link.kind = "clients"     -> addClient(link)
      [] link.kind = "servers"     -> addServer(link)
      [] link.kind = "writes"      -> addWrite(link)
      [] link.kind = "reads"       -> addRead(link)

\* the graph setModel builds; graphlib's setEdge keeps one edge per
\* <<source, target>>
setModelGraph(config) ==
    [nodes |-> {addNode(u) : u \in config.nodes}
                \cup {addTopic(u) : u \in config.topics}
                \cup {addService(u) : u \in config.services}
                \cup {addParameter(u) : u \in config.parameters},
     edges |-> {_addEdge(l) : l \in config.links}]

hasEdge(g, v, w) == <<v, w>> \in g.edges

\* graphlib's setEdge adds the end points of an edge as nodes
Endpoints(edges) == {e[1] : e \in edges} \cup {e[2] : e \in edges}

\* faulty variant: the focus filter only follows edges that leave the focus
updateVisibilityOutOnly(g, nv0, ev0, sp, fc) ==
    LET nv1 == [v \in g.nodes |-> sp \/ resourceType(v) # "param"]
        ev1 == [e \in g.edges |-> sp \/ (resourceType(e[1]) # "param"
                                         /\ resourceType(e[2]) # "param")]
        nv2 == [v \in g.nodes |->
                   nv1[v] /\ (v = fc \/ hasEdge(g, fc, v))]
        ev2 == [e \in g.edges |-> ev1[e] /\ (e[1] = fc)]
        nv == IF fc # NoNode THEN nv2 ELSE nv1
        ev == IF fc # NoNode THEN ev2 ELSE ev1
    IN  IF sp /\ fc = NoNode
        THEN [nodeVisible |-> nv1, edgeVisible |-> ev1, graph |-> g]
        ELSE [nodeVisible |-> nv, edgeVisible |-> ev,
              graph |-> [nodes |-> {v \in g.nodes : nv[v]}
                                    \cup Endpoints({e \in g.edges : ev[e]}),
                         edges |-> {e \in g.edges : ev[e]}]]

\* faulty variant: with parameters hidden an edge is kept when its source is not a
\* parameter
updateVisibilitySourceOnly(g, nv0, ev0, sp, fc) ==
    LET nv1 == [v \in g.nodes |-> sp \/ resourceType(v) # "param"]
        ev1 == [e \in g.edges |-> sp \/ resourceType(e[1]) # "param"]
        nv2 == [v \in g.nodes |->
                   nv1[v] /\ (v = fc \/ hasEdge(g, v, fc)
                                     \/ hasEdge(g, fc, v))]
        ev2 == [e \in g.edges |-> ev1[e] /\ (e[1] = fc \/ e[2] = fc)]
        nv == IF fc # NoNode THEN nv2 ELSE nv1
        ev == IF fc # NoNode THEN ev2 ELSE ev1
    IN  IF sp /\ fc = NoNode
        THEN [nodeVisible |-> nv1, edgeVisible |-> ev1, graph |-> g]
        ELSE [nodeVisible |-> nv, edgeVisible |-> ev,
              graph |-> [nodes |-> {v \in g.nodes : nv[v]}
                                    \cup Endpoints({e \in g.edges : ev[e]}),
                         edges |-> {e \in g.edges : ev[e]}]]

\* updateVisibility on graph g with showParams = sp and focus = fc: the
\* visible flags it leaves on the nodes and edges, and the graph it returns.
\* nv0, ev0 are the flags before the call (every flag is overwritten).
updateVisibility(g, nv0, ev0, sp, fc) ==
    LET \* first pass: the parameter filter
        nv1 == [v \in g.nodes |-> sp \/ resourceType(v) # "param"]
        ev1 == [e \in g.edges |-> sp \/ (resourceType(e[1]) # "param"
                                         /\ resourceType(e[2]) # "param")]
        \* second pass: the focus filter
        nv2 == [v \in g.nodes |->
                   nv1[v] /\ (v = fc \/ hasEdge(g, v, fc)
                                     \/ hasEdge(g, fc, v))]
        ev2 == [e \in g.edges |-> ev1[e] /\ (e[1] = fc \/ e[2] = fc)]
        nv == IF fc # NoNode THEN nv2 ELSE nv1
        ev == IF fc # NoNode THEN ev2 ELSE ev1
    IN  IF sp /\ fc = NoNode
        THEN [nodeVisible |-> nv1, edgeVisible |-> ev1, graph |-> g]
        ELSE [nodeVisible |-> nv, edgeVisible |-> ev,
              graph |-> [nodes |-> {v \in g.nodes : nv[v]}
                                    \cup Endpoints({e \in g.edges : ev[e]}),
                         edges |-> {e \in g.edges : ev[e]}]]

\* RosStaticGraph.render with the fields as given: nothing when the view is
\* hidden or the model has no resources, else updateVisibility and layout
render(vis, mdl, g, nv0, ev0, sp, fc) ==
    IF vis /\ mdl # <<>> /\ hasResources(mdl[1])
    THEN LET r == updateVisibility(g, nv0, ev0, sp, fc)
         IN  /\ nodeVisible' = r.nodeVisible
             /\ edgeVisible' = r.edgeVisible
             /\ layout' = r.graph
             /\ updated' = TRUE
    ELSE /\ nodeVisible' = nv0
         /\ edgeVisible' = ev0
         /\ layout' = EmptyGraph
         /\ updated' = FALSE

\* the graph view after construction and the collection after its sync
InitGraph ==
    /\ InitGraphView
    /\ collection \in {<<c>> : c \in Configurations}
    /\ InitNameIdle
    /\ InitTreeIdle
    /\ InitFeatureIdle
    /\ InitRaceIdle
    /\ InitUnknownIdle

\* RosBoard.onSelect: graph.setModel(config) with the configuration of the
\* collection, then RosBoard.render, which copies the board's visible flag
\* and renders the graph
onSelect ==
    \E vis \in BOOLEAN :
        LET config == collection[1]
            g == setModelGraph(config)
        IN  /\ model' = <<config>>
            /\ graph' = g
            /\ focus' = NoNode
            /\ selection' = NoNode
            /\ selectedClass' = {}
            /\ queries' = [nodes |-> {}, edges |-> {}]
            /\ queryObject' = [nodes |-> {}, edges |-> {}]
            /\ response' = <<>>
            /\ visible' = vis
            /\ render(vis, <<config>>, g,
                      [v \in g.nodes |-> FALSE], [e \in g.edges |-> FALSE],
                      showParams, NoNode)
            /\ UNCHANGED <<showParams, collection>>
            /\ UNCHANGED nonGraphVars

\* faulty variant: the node that was selected keeps its class
setSelectionKeeps(sel, cls, id) ==
    IF sel # id
    THEN [selection |-> id, selectedClass |-> cls \cup {id}]
    ELSE [selection |-> NoNode, selectedClass |-> cls]

\* what onSelection(id) leaves in this.selection and which nodes carry the
\* class "selected" after it
setSelection(sel, cls, id) ==
    LET cls1 == IF sel # NoNode THEN cls \ {sel} ELSE cls
    IN  IF sel # id
        THEN [selection |-> id, selectedClass |-> cls1 \cup {id}]
        ELSE [selection |-> NoNode, selectedClass |-> cls1]

\* the same for deselect()
deselect(sel, cls) ==
    IF sel # NoNode
    THEN [selection |-> NoNode, selectedClass |-> cls \ {sel}]
    ELSE [selection |-> sel, selectedClass |-> cls]

\* onSelection(id): the node with that id triggered "selected"
onSelection(id) ==
    LET r == setSelection(selection, selectedClass, id)
    IN  /\ selection' = r.selection
        /\ selectedClass' = r.selectedClass
        /\ updated' = FALSE
        /\ layout' = EmptyGraph
        /\ UNCHANGED <<model, graph, nodeVisible, edgeVisible, showParams,
                       focus, visible, collection>>
        /\ UNCHANGED <<queries, queryObject, response>>
        /\ UNCHANGED nonGraphVars

\* ResourceNode.onClick: a click on a node of the graph
onClick == \E id \in graph.nodes : onSelection(id)

\* a click on the background: deselect
onEmptyClick ==
    /\ selection' = deselect(selection, selectedClass).selection
    /\ selectedClass' = deselect(selection, selectedClass).selectedClass
    /\ updated' = FALSE
    /\ layout' = EmptyGraph
    /\ UNCHANGED <<model, graph, nodeVisible, edgeVisible, showParams,
                   focus, visible, collection>>
    /\ UNCHANGED <<queries, queryObject, response>>
    /\ UNCHANGED nonGraphVars

onFocus ==
    /\ selection # NoNode
    /\ focus' = IF selection # focus THEN selection ELSE NoNode
    /\ selection' = IF selection # focus
                    THEN deselect(selection, selectedClass).selection
                    ELSE selection
    /\ selectedClass' = IF selection # focus
                        THEN deselect(selection, selectedClass).selectedClass
                        ELSE selectedClass
    /\ render(visible, model, graph, nodeVisible, edgeVisible, showParams,
              focus')
    /\ UNCHANGED <<model, graph, showParams, visible, collection>>
    /\ UNCHANGED <<queries, queryObject, response>>
    /\ UNCHANGED nonGraphVars

onToggleParams ==
    /\ showParams' = ~showParams
    /\ focus' = IF ~showParams' /\ focus # NoNode
                   /\ resourceType(focus) = "param"
                THEN NoNode ELSE focus
    /\ render(visible, model, graph, nodeVisible, edgeVisible, showParams',
              focus')
    /\ UNCHANGED <<model, graph, selection, selectedClass, visible,
                   collection>>
    /\ UNCHANGED <<queries, queryObject, response>>
    /\ UNCHANGED nonGraphVars

\* the viewport button: render
onViewport ==
    /\ render(visible, model, graph, nodeVisible, edgeVisible, showParams,
              focus)
    /\ UNCHANGED <<model, graph, showParams, focus, selection,
                   selectedClass, visible, collection>>
    /\ UNCHANGED <<queries, queryObject, response>>
    /\ UNCHANGED nonGraphVars

NextGraph ==
    \/ onSelect
    \/ onClick
    \/ onEmptyClick
    \/ onFocus
    \/ onToggleParams
    \/ onViewport

SpecGraph == InitGraph /\ [][NextGraph]_vars

(***************************************************************************)
(* Queries.  A response to /cg/query carries a qid and the matched objects *)
(* of the configuration on display: resources as {resourceType, uid},      *)
(* links as {resourceType: "link", node_uid, and topic_uid, service_uid or *)
(* param_uid}.  The model keeps of the queries maps the entries that are   *)
(* true: false and undefined read the same at "=== true".  Configurations  *)
(* are taken without stored queries, so the query select only offers       *)
(* "--No highlights--".                                                    *)
(***************************************************************************)
Qids == {1}

\* the value "null" of the query select
NoQid == 0

\* a uid field an object does not have
NoUid == 0

resourceObject(id) ==
    [resourceType |-> resourceType(id), uid |-> id[2], node_uid |-> NoUid,
     topic_uid |-> NoUid, service_uid |-> NoUid, param_uid |-> NoUid]

linkObject(link) ==
    [resourceType |-> "link", uid |-> NoUid, node_uid |-> link.node_uid,
     topic_uid |-> IF link.kind \in {"publishers", "subscribers"}
                   THEN link.uid ELSE NoUid,
     service_uid |-> IF link.kind \in {"servers", "clients"}
                     THEN link.uid ELSE NoUid,
     param_uid |-> IF link.kind \in {"reads", "writes"}
                   THEN link.uid ELSE NoUid]

\* the objects of a response that matched the resources rs and the links ls
objectsOf(rs, ls) ==
    {resourceObject(v) : v \in rs} \cup {linkObject(l) : l \in ls}

forgetQuery(q, queryId) ==
    [nodes |-> {p \in q.nodes : p[2] # queryId},
     edges |-> {p \in q.edges : p[2] # queryId}]

\* the edge mapQuery marks for a link object: the edge from the node to
\* the resource if there is one, else the edge from the resource
edgeOfObject(g, obj) ==
    LET n1 == addNode(obj.node_uid)
        n2 == IF addTopic(obj.topic_uid) \in g.nodes
              THEN addTopic(obj.topic_uid)
              ELSE IF addService(obj.service_uid) \in g.nodes
                   THEN addService(obj.service_uid)
                   ELSE addParameter(obj.param_uid)
    IN  IF hasEdge(g, n1, n2) THEN <<n1, n2>> ELSE <<n2, n1>>

mapQuery(q, g, query) ==
    [nodes |-> q.nodes \cup
                 {<<(<<obj.resourceType, obj.uid>>), query.qid>> :
                     obj \in {o \in query.objects : o.resourceType # "link"}},
     edges |-> q.edges \cup
                 {<<edgeOfObject(g, obj), query.qid>> :
                     obj \in {o \in query.objects : o.resourceType = "link"}}]

setHighlights(q, g, queryId) ==
    [nodes |-> {v \in g.nodes : <<v, queryId>> \in q.nodes},
     edges |-> {e \in g.edges : <<e, queryId>> \in q.edges}]

\* the graph view after construction and the collection after its sync
InitQuery ==
    /\ InitGraphView
    /\ collection \in {<<c>> : c \in Configurations}
    /\ InitNameIdle
    /\ InitTreeIdle
    /\ InitFeatureIdle
    /\ InitRaceIdle
    /\ InitUnknownIdle

\* RosBoard.onQueryInput, when the response arrives: it matched some
\* resources and links of the configuration on display
onQueryInput ==
    /\ model # <<>>
    /\ \E qid \in Qids, rs \in SubsetsUpTo(graph.nodes, MaxObjects) :
          \E ls \in SubsetsUpTo(model[1].links,
                                MaxObjects - Cardinality(rs)) :
              LET data == [qid |-> qid, objects |-> objectsOf(rs, ls)]
                  q == mapQuery(forgetQuery(queries, data.qid), graph, data)
              IN  /\ queries' = q
                  /\ queryObject' = setHighlights(q, graph, data.qid)
                  /\ response' = <<[qid |-> qid, resources |-> rs,
                                    links |-> ls]>>
    /\ updated' = FALSE
    /\ layout' = EmptyGraph
    /\ UNCHANGED <<model, graph, nodeVisible, edgeVisible, showParams, focus,
                   selection, selectedClass, visible, collection>>
    /\ UNCHANGED nonGraphVars

\* RosBoard.onQuerySelect with the only option of the select
onQuerySelect ==
    /\ queryObject' = setHighlights(queries, graph, NoQid)
    /\ response' = <<>>
    /\ updated' = FALSE
    /\ layout' = EmptyGraph
    /\ UNCHANGED <<model, graph, nodeVisible, edgeVisible, showParams, focus,
                   selection, selectedClass, queries, visible, collection>>
    /\ UNCHANGED nonGraphVars

NextQuery ==
    \/ onSelect
    \/ onQueryInput
    \/ onQuerySelect

SpecQuery == InitQuery /\ [][NextQuery]_vars

(***************************************************************************)
(* Queries in flight.  onQueryEntered triggers "query" on the Enter key,   *)
(* RosBoard.onQueryInput sends the text to /cg/query with fetch and        *)
(* returns; the response is processed in a later task of the event loop,   *)
(* whenever it comes.  A request is kept with the number of its submission *)
(* and with what the server will answer for it: a qid and the resources    *)
(* and links of the configuration that the query text matches.             *)
(***************************************************************************)
\* what a query on the configuration of graph g may match
Matches(g, links) ==
    UNION { { [resources |-> rs, links |-> ls] :
                ls \in SubsetsUpTo(links, MaxMatched - Cardinality(rs)) } :
            rs \in SubsetsUpTo(g.nodes, MaxMatched) }

\* the number of the query submitted last, 0 when there was none
sent == IF lastQuery = <<>> THEN 0 ELSE lastQuery[1].seq

\* the body of a response: what the server answers to request r
dataOf(r) == [qid |-> r.qid, objects |-> objectsOf(r.resources, r.links)]

\* the graph view after construction and the collection after its sync
InitRace ==
    /\ InitGraphView
    /\ collection \in {<<c>> : c \in Configurations}
    /\ InitNameIdle
    /\ InitTreeIdle
    /\ InitFeatureIdle
    /\ InitRaceIdle
    /\ InitUnknownIdle

\* RosStaticGraph.onToggleQueryInput: show or hide the query input bar
onToggleQueryInput ==
    /\ queryInputVisible' = ~queryInputVisible
    /\ UNCHANGED <<inflight, lastQuery, raced>>
    /\ UNCHANGED graphVars
    /\ UNCHANGED nonRaceVars

\* RosStaticGraph.onQueryEntered, a key pressed in the query input field.
\* Enter: trigger "query", so RosBoard.onQueryInput sends the request and
\* returns; the bar stays.  Escape: hide the bar.
onQueryEntered ==
    /\ queryInputVisible
    /\ \/ /\ model # <<>>
          /\ sent < MaxQueries
          /\ \E qid \in Qids, m \in Matches(graph, model[1].links) :
                LET r == [seq |-> sent + 1, qid |-> qid,
                          resources |-> m.resources, links |-> m.links]
                IN  /\ inflight' = inflight \cup {r}
                    /\ lastQuery' = <<r>>
                    /\ raced' = (inflight # {})
          /\ UNCHANGED queryInputVisible
       \/ /\ queryInputVisible' = FALSE
          /\ UNCHANGED <<inflight, lastQuery, raced>>
    /\ UNCHANGED graphVars
    /\ UNCHANGED nonRaceVars

\* the response to request r arrives: the second "then" of onQueryInput
onQueryData(r) ==
    /\ r \in inflight
    /\ inflight' = inflight \ {r}
    /\ LET data == dataOf(r)
           q == mapQuery(forgetQuery(queries, data.qid), graph, data)
       IN  /\ queries' = q
           /\ queryObject' = setHighlights(q, graph, data.qid)
           /\ response' = <<[qid |-> r.qid, resources |-> r.resources,
                             links |-> r.links]>>
    /\ updated' = FALSE
    /\ layout' = EmptyGraph
    /\ UNCHANGED <<model, graph, nodeVisible, edgeVisible, showParams, focus,
                   selection, selectedClass, visible, collection>>
    /\ UNCHANGED <<queryInputVisible, lastQuery, raced>>
    /\ UNCHANGED nonRaceVars

\* the responses come in any order
onQueryResponse == \E r \in inflight : onQueryData(r)

NextRace ==
    \/ onSelect
    \/ onToggleQueryInput
    \/ onQueryEntered
    \/ onQueryResponse
    \/ onQuerySelect

SpecRace == InitRace /\ [][NextRace]_vars

(***************************************************************************)
(* Unknown resources.  setModel ends with a pass over the topics, the      *)
(* services and the parameters that fills the candidates attribute of      *)
(* those whose name holds a '?'.  A configuration is taken here with the   *)
(* names of its resources and the types of their links: a resource is      *)
(* [name, type, linkTypes], type being the type field of a parameter (null *)
(* for a topic or service, which have none) and linkTypes the type fields  *)
(* of the links that end at it, null where a link of a parameter has none. *)
(* As in the graph, the id of a resource is <<resourceType, uid>>.         *)
(***************************************************************************)
Kinds == {"topic", "service", "param"}

\* names with and without '?'; "/ns/?" does not match "/a"
UnknownNames == {<<"a">>, <<"?">>, <<"ns", "?">>}

\* the message types of the links, and the link types a parameter may have
TypeNames == {"T"}
ParamLinkTypes == {{}, TypeNames \cup {NULL}}

NamedResources(kind) ==
    IF kind = "param"
    THEN [name : UnknownNames, type : TypeNames \cup {NULL},
          linkTypes : ParamLinkTypes]
    ELSE [name : UnknownNames, type : {NULL}, linkTypes : SUBSET TypeNames]

\* the resources of a kind a configuration may hold, by uid
Mappings(kind) ==
    UNION {[1..n -> NamedResources(kind)] :
              n \in 0..(IF kind = "service" THEN Cardinality(ServiceUids)
                                            ELSE MaxUnknown)}

\* name.indexOf("?") >= 0: the segments of the names taken here hold a '?'
\* only as a whole segment
hasUnknown(name) == \E i \in 1..Len(name) : name[i] = "?"

\* the keys of the types object after addTopic, addService or addParameter
\* and the add<Link> calls
typesOf(kind, r) ==
    IF kind = "param"
    THEN (IF r.type # NULL THEN {r.type} ELSE {})
            \cup {t \in r.linkTypes : t # NULL}
    ELSE r.linkTypes

\* faulty variant: the types are never compared
RECURSIVE _connectUnknownUntyped(_, _, _, _, _)
_connectUnknownUntyped(mapping, kind, uid, typeCheck, n) ==
    IF n = 0 THEN <<>>
    ELSE LET before == _connectUnknownUntyped(mapping, kind, uid, typeCheck,
                                              n - 1)
             model_ == mapping[uid]
             other == mapping[n]
         IN  IF ~hasUnknown(model_.name) THEN <<>>
             ELSE IF n = uid THEN before
             ELSE IF _nameMatch(split(model_.name), 0, split(other.name), 0)
                  THEN Append(before, <<kind, n>>)
                  ELSE before

\* _connectUnknown for the resource uid of mapping: the candidates after
\* the keys 1..n of the mapping have been visited, in the order of for-in
RECURSIVE _connectUnknown(_, _, _, _, _)
_connectUnknown(mapping, kind, uid, typeCheck, n) ==
    IF n = 0 THEN <<>>
    ELSE LET before == _connectUnknown(mapping, kind, uid, typeCheck, n - 1)
             model_ == mapping[uid]
             other == mapping[n]
         IN  IF ~hasUnknown(model_.name) THEN <<>>
             ELSE IF n = uid THEN before
             ELSE IF typeCheck
                     /\ typesOf(kind, model_) # typesOf(kind, other)
                  THEN before
             ELSE IF _nameMatch(split(model_.name), 0, split(other.name), 0)
                  THEN Append(before, <<kind, n>>)
                  ELSE before

\* connectUnknownTopic, connectUnknownService and connectUnknownParam over
\* every resource of their mapping
connectUnknownTopic(mapping) ==
    [uid \in DOMAIN mapping |->
        _connectUnknown(mapping, "topic", uid, TRUE, Len(mapping))]

connectUnknownService(mapping) ==
    [uid \in DOMAIN mapping |->
        _connectUnknown(mapping, "service", uid, TRUE, Len(mapping))]

connectUnknownParam(mapping) ==
    [uid \in DOMAIN mapping |->
        _connectUnknown(mapping, "param", uid, FALSE, Len(mapping))]

\* the configuration the server sent, nothing set as model yet
InitUnknown ==
    /\ named \in [topic : Mappings("topic"), service : Mappings("service"),
                  param : Mappings("param")]
    /\ candidates = <<>>
    /\ InitNameIdle
    /\ InitGraphIdle
    /\ InitTreeIdle
    /\ InitFeatureIdle
    /\ InitRaceIdle

\* setModel on the named configuration: every _addResource starts the
\* candidates empty, the add<Link> calls collect the types, then the three
\* passes fill the candidates
setModelNamed ==
    /\ candidates' = <<[topic |-> connectUnknownTopic(named.topic),
                        service |-> connectUnknownService(named.service),
                        param |-> connectUnknownParam(named.param)]>>
    /\ UNCHANGED named
    /\ UNCHANGED nonUnknownVars

NextUnknown == setModelNamed

SpecUnknown == InitUnknown /\ [][NextUnknown]_vars

(***************************************************************************)
(* The feature tree of launch files, args and values (MyTree, third        *)
(* version of the file) and the request RosSystemView builds from it.      *)
(*                                                                         *)
(* Items are named by their path: <<l>> a launch file, <<l, a>> its arg    *)
(* number a, <<l, a, v>> the value at index v (from 0) of that arg.  The   *)
(* first launch file has MaxArgs args of MaxValues values each, the second *)
(* has no args.  selected is "true", "false" or NULL; a string field that  *)
(* may be null is <<>> or a tuple.  Collapsing and expanding (onBulletClick)*)
(* only moves children to _children and back, and every handler reads      *)
(* children || _children, so the model keeps the children in one place.    *)
(***************************************************************************)
T == "true"
F == "false"
Tri == {T, F, NULL}

\* what the user may type at a prompt
Texts == {<<"text", "x">>}

LaunchFiles == {<<1>>, <<2>>}
nArgs(l) == IF l = <<1>> THEN MaxArgs ELSE 0
ArgsOf(l) == {<<l[1], a>> : a \in 1..nArgs(l)}
ValueIndex == 0..(MaxValues - 1)
ValuesOf(a) == {<<a[1], a[2], v>> : v \in ValueIndex}
Args == UNION {ArgsOf(l) : l \in LaunchFiles}
Values == UNION {ValuesOf(a) : a \in Args}
Items == LaunchFiles \cup Args \cup Values

parent(d) == SubSeq(d, 1, Len(d) - 1)

\* data.name of an item, and data.value of a value
dataName(d) == <<"name">> \o d
dataValue(d) == IF fm.hasValue THEN <<"value">> \o d ELSE NoText

resolved(d) == fm.resolved[d[3]]

\* source.data.defaultValue || 0
defaultIndex == IF fm.defaultValue = NoIndex THEN 0 ELSE fm.defaultValue

\* what a click's prompt can be answered: a text, or NoText when the prompt
\* is cancelled or left empty
Answers == Texts \cup {NoText}

\* faulty variant: an unresolved value that has a text is selected without ever
\* asking again and without data.selected
setValueSelectedUiOnly(t, d, ask, ans) ==
    IF ~resolved(d)
    THEN IF ask \/ t.value[d] = NoText
         THEN IF ans = NoText
              THEN [t |-> t, ok |-> FALSE, prompted |-> TRUE]
              ELSE [t |-> [t EXCEPT !.value[d] = ans,
                                    !.name[d] = ans \o <<" (*)">>,
                                    !.ui[d] = T],
                    ok |-> TRUE, prompted |-> TRUE]
         ELSE [t |-> [t EXCEPT !.ui[d] = NULL],
               ok |-> TRUE, prompted |-> FALSE]
    ELSE [t |-> [t EXCEPT !.ui[d] = T],
          ok |-> TRUE, prompted |-> FALSE]

\* setValueSelected(d, ask) when the prompt, if one opens, is answered ans
setValueSelected(t, d, ask, ans) ==
    IF ~resolved(d)
    THEN IF ask \/ t.value[d] = NoText
         THEN IF ans = NoText
              THEN [t |-> t, ok |-> FALSE, prompted |-> TRUE]
              ELSE [t |-> [t EXCEPT !.value[d] = ans,
                                    !.name[d] = ans \o <<" (*)">>,
                                    !.ui[d] = T,
                                    !.data[d] = T],
                    ok |-> TRUE, prompted |-> TRUE]
         ELSE [t |-> [t EXCEPT !.ui[d] = NULL, !.data[d] = T],
               ok |-> TRUE, prompted |-> FALSE]
    ELSE [t |-> [t EXCEPT !.ui[d] = T, !.data[d] = T],
          ok |-> TRUE, prompted |-> FALSE]

\* every value of arg a gets data.selected = ui.selected = v
SetValues(t, a, v) ==
    [t EXCEPT !.data = [d \in Items |->
                          IF d \in ValuesOf(a) THEN v ELSE t.data[d]],
              !.ui = [d \in Items |->
                          IF d \in ValuesOf(a) THEN v ELSE t.ui[d]]]

\* faulty variant: selecting an arg keeps the values that are selected
propagateArgSelectionKeeps(t, a, ans) ==
    IF t.data[a] = T
    THEN LET i == IF t.previousValue[a] # NoIndex
                  THEN t.previousValue[a] ELSE defaultIndex
             r == setValueSelected(t, <<a[1], a[2], i>>, FALSE, ans)
         IN  IF r.ok
             THEN [t |-> [r.t EXCEPT !.previousValue[a] = i],
                   ok |-> TRUE, prompted |-> r.prompted]
             ELSE [t |-> r.t, ok |-> FALSE, prompted |-> r.prompted]
    ELSE [t |-> SetValues(t, a, t.data[a]), ok |-> TRUE, prompted |-> FALSE]

\* propagateArgSelection(source): previousValue is kept as the index of the
\* value whose id it holds (ids are distinct, so the search by id finds
\* that index)
propagateArgSelection(t, a, ans) ==
    IF t.data[a] = T
    THEN LET t1 == SetValues(t, a, F)
             i == IF t.previousValue[a] # NoIndex
                  THEN t.previousValue[a] ELSE defaultIndex
             r == setValueSelected(t1, <<a[1], a[2], i>>, FALSE, ans)
         IN  IF r.ok
             THEN [t |-> [r.t EXCEPT !.previousValue[a] = i],
                   ok |-> TRUE, prompted |-> r.prompted]
             ELSE [t |-> r.t, ok |-> FALSE, prompted |-> r.prompted]
    ELSE [t |-> SetValues(t, a, t.data[a]), ok |-> TRUE, prompted |-> FALSE]

\* one turn of a loop of propagateRosLaunchSelection on arg a: the arg is
\* set to null, its values follow, then the arg gets v
ResetArg(t, a, v) ==
    LET t1 == [t EXCEPT !.ui[a] = NULL, !.data[a] = NULL]
        t2 == propagateArgSelection(t1, a, NoText).t
    IN  [t2 EXCEPT !.ui[a] = v, !.data[a] = v]

RECURSIVE ResetArgs(_, _, _)
ResetArgs(t, as, v) ==
    IF as = {} THEN t
    ELSE LET a == CHOOSE x \in as : TRUE
         IN  ResetArgs(ResetArg(t, a, v), as \ {a}, v)

\* faulty variant: selecting a launch file resets the args that are selected too
propagateRosLaunchSelectionAll(t, l) ==
    IF ArgsOf(l) = {} THEN t
    ELSE LET v == t.data[l]
         IN  IF v = T
             THEN ResetArgs(t, ArgsOf(l), NULL)
             ELSE ResetArgs(t, ArgsOf(l), v)

\* faulty variant: discarding a launch file leaves its args unknown
propagateRosLaunchSelectionUnknown(t, l) ==
    IF ArgsOf(l) = {} THEN t
    ELSE LET v == t.data[l]
         IN  IF v = T
             THEN ResetArgs(t, {a \in ArgsOf(l) : t.data[a] # T}, NULL)
             ELSE ResetArgs(t, ArgsOf(l), NULL)

\* propagateRosLaunchSelection(source)
propagateRosLaunchSelection(t, l) ==
    IF ArgsOf(l) = {} THEN t
    ELSE LET v == t.data[l]
         IN  IF v = T
             THEN ResetArgs(t, {a \in ArgsOf(l) : t.data[a] # T}, NULL)
             ELSE ResetArgs(t, ArgsOf(l), v)

\* faulty variant: a value's selection marks the launch file as chosen by the user
propagateValueSelectionManual(t, d, ans) ==
    LET a == parent(d)
        l == parent(a)
        t1 == IF t.data[l] # T
              THEN propagateRosLaunchSelection(
                       [t EXCEPT !.data[l] = T, !.ui[l] = T], l)
              ELSE t
        t2 == [t1 EXCEPT !.ui[a] = T, !.data[a] = T,
                         !.previousValue[a] = d[3]]
    IN  propagateArgSelection(t2, a, ans)

\* propagateValueSelection(source)
propagateValueSelection(t, d, ans) ==
    LET a == parent(d)
        l == parent(a)
        t1 == IF t.data[l] # T
              THEN propagateRosLaunchSelection([t EXCEPT !.data[l] = T], l)
              ELSE t
        t2 == [t1 EXCEPT !.ui[a] = T, !.data[a] = T,
                         !.previousValue[a] = d[3]]
    IN  propagateArgSelection(t2, a, ans)

\* faulty variant: a launch file goes from selected straight back to unknown
NextSelectedSkips(v) == IF v = NULL THEN T ELSE NULL

\* the step onSelectRosLaunch makes on data.selected
NextSelected(v) == IF v = T THEN F ELSE IF v = F THEN NULL ELSE T

InitTree ==
    /\ fm \in [resolved : [ValueIndex -> BOOLEAN],
               defaultValue : ValueIndex \cup {NoIndex},
               hasValue : BOOLEAN]
    /\ tree = [data |-> [d \in Items |-> NULL],
               ui |-> [d \in Items |-> NULL],
               previousValue |-> [a \in Args |-> NoIndex],
               value |-> [d \in Values |-> NoText],
               name |-> [d \in Values |-> dataName(d)]]
    /\ request = <<>>
    /\ InitNameIdle
    /\ InitGraphIdle
    /\ InitFeatureIdle
    /\ InitRaceIdle
    /\ InitUnknownIdle

\* the tree after onSelectRosLaunch(d)
SelectRosLaunch(t, l) ==
    IF t.ui[l] # t.data[l]
    THEN [t EXCEPT !.ui[l] = t.data[l]]
    ELSE LET v == NextSelected(t.data[l])
         IN  propagateRosLaunchSelection([t EXCEPT !.data[l] = v, !.ui[l] = v],
                                         l)

\* a click on the label of launch file l
ClickRosLaunch(l) ==
    /\ tree' = SelectRosLaunch(tree, l)
    /\ request' = <<>>
    /\ UNCHANGED fm
    /\ UNCHANGED nonTreeVars

onSelectRosLaunch == \E l \in LaunchFiles : ClickRosLaunch(l)

\* the tree and the prompt after onSelectArg(d) when a prompt is answered ans
SelectArg(t, a, ans) ==
    IF t.ui[a] # t.data[a]
    THEN LET t1 == [t EXCEPT !.ui[a] = t.data[a]]
         IN  IF t.data[a] = T
             THEN propagateArgSelection(t1, a, ans)
             ELSE [t |-> t1, ok |-> TRUE, prompted |-> FALSE]
    ELSE IF t.data[a] = F
         THEN [t |-> t, ok |-> TRUE, prompted |-> FALSE]
    ELSE IF t.data[a] = T
         THEN propagateArgSelection(
                  [t EXCEPT !.data[a] = NULL, !.ui[a] = NULL], a, ans)
    ELSE LET l == parent(a)
             t1 == propagateRosLaunchSelection([t EXCEPT !.data[l] = T], l)
         IN  propagateArgSelection(
                  [t1 EXCEPT !.data[a] = T, !.ui[a] = T], a, ans)

\* a click on the label of arg a; ans is what the user does with the
\* prompt if one opens
ClickArg(a, ans) ==
    LET r == SelectArg(tree, a, ans)
    IN  /\ r.prompted \/ ans = NoText
        /\ tree' = r.t
        /\ request' = <<>>
        /\ UNCHANGED fm
        /\ UNCHANGED nonTreeVars

onSelectArg == \E a \in Args, ans \in Answers : ClickArg(a, ans)

\* faulty variant: a cancelled prompt does not stop the click on the value
SelectValueCancelled(t, d, ans) ==
    IF t.data[parent(d)] = F
    THEN [t |-> t, ok |-> TRUE, prompted |-> FALSE]
    ELSE LET r == setValueSelected(t, d, t.data[d] = T, ans)
             p == propagateValueSelection(r.t, d, ans)
         IN  [t |-> [p.t EXCEPT !.ui[d] = T, !.data[d] = T],
              ok |-> TRUE,
              prompted |-> r.prompted \/ p.prompted]

\* faulty variant: a value of a discarded arg can be clicked
SelectValueDiscarded(t, d, ans) ==
    LET r == setValueSelected(t, d, t.data[d] = T, ans)
    IN  IF ~r.ok THEN r
        ELSE LET p == propagateValueSelection(r.t, d, ans)
             IN  [t |-> [p.t EXCEPT !.ui[d] = T, !.data[d] = T],
                  ok |-> TRUE,
                  prompted |-> r.prompted \/ p.prompted]

\* the tree and the prompt after onSelectValue(d)
SelectValue(t, d, ans) ==
    IF t.data[parent(d)] = F
    THEN [t |-> t, ok |-> TRUE, prompted |-> FALSE]
    ELSE LET r == setValueSelected(t, d, t.data[d] = T, ans)
         IN  IF ~r.ok THEN r
             ELSE LET p == propagateValueSelection(r.t, d, ans)
                  IN  [t |-> [p.t EXCEPT !.ui[d] = T, !.data[d] = T],
                       ok |-> TRUE,
                       prompted |-> r.prompted \/ p.prompted]

\* a click on the label of value d
ClickValue(d, ans) ==
    LET r == SelectValue(tree, d, ans)
    IN  /\ r.prompted \/ ans = NoText
        /\ tree' = r.t
        /\ request' = <<>>
        /\ UNCHANGED fm
        /\ UNCHANGED nonTreeVars

onSelectValue == \E d \in Values, ans \in Answers : ClickValue(d, ans)

\* the launch files in the order of fm.children
LaunchOrder == [i \in 1..Cardinality(LaunchFiles) |-> <<i>>]

\* the first value of arg a whose data.selected is true, NoIndex if none
FirstSelected(t, a) ==
    LET sel == {v \in ValueIndex : t.data[<<a[1], a[2], v>>] = T}
    IN  IF sel = {} THEN NoIndex
        ELSE CHOOSE v \in sel : \A w \in sel : v <= w

\* what the loops over d2 and d3 leave in args[d2.name]
ArgEntry(t, a) ==
    IF t.data[a] = T /\ FirstSelected(t, a) # NoIndex
    THEN LET d == <<a[1], a[2], FirstSelected(t, a)>>
         IN  IF resolved(d) THEN dataName(d) ELSE dataValue(d)
    ELSE NoText

LaunchEntry(t, l) ==
    [name |-> dataName(l),
     args |-> [n \in {dataName(a) : a \in ArgsOf(l)} |->
                  ArgEntry(t, CHOOSE a \in ArgsOf(l) : dataName(a) = n)]]

RECURSIVE Collect(_, _, _)
\* the sequence of f[l] for the launch files l from position i on that are
\* in keep, in order
Collect(f, keep, i) ==
    IF i > Len(LaunchOrder) THEN <<>>
    ELSE IF LaunchOrder[i] \in keep
         THEN <<f[LaunchOrder[i]]>> \o Collect(f, keep, i + 1)
         ELSE Collect(f, keep, i + 1)

\* faulty variant: a launch file that is not selected is discarded
cgRequestDataNoSkip(t) ==
    [launch |-> Collect([l \in LaunchFiles |-> LaunchEntry(t, l)],
                        {l \in LaunchFiles : t.data[l] = T}, 1),
     discard |-> Collect([l \in LaunchFiles |-> dataName(l)],
                         {l \in LaunchFiles : t.data[l] # T}, 1)]

\* faulty variant: the request carries the text the user typed for every value
cgRequestDataTyped(t) ==
    [launch |-> Collect([l \in LaunchFiles |->
                    [name |-> dataName(l),
                     args |-> [n \in {dataName(a) : a \in ArgsOf(l)} |->
                        LET a == CHOOSE x \in ArgsOf(l) : dataName(x) = n
                        IN  IF t.data[a] = T /\ FirstSelected(t, a) # NoIndex
                            THEN t.value[<<a[1], a[2], FirstSelected(t, a)>>]
                            ELSE NoText]]],
                        {l \in LaunchFiles : t.data[l] = T}, 1),
     discard |-> Collect([l \in LaunchFiles |-> dataName(l)],
                         {l \in LaunchFiles : t.data[l] = F}, 1)]

\* cgRequestData: the launch and discard lists of the body (project, the
\* id of the feature model, is left out)
cgRequestData(t) ==
    [launch |-> Collect([l \in LaunchFiles |-> LaunchEntry(t, l)],
                        {l \in LaunchFiles : t.data[l] = T}, 1),
     discard |-> Collect([l \in LaunchFiles |-> dataName(l)],
                         {l \in LaunchFiles : t.data[l] = F}, 1)]

\* calcComputationGraph: the feature model takes the tree's data and
\* sendCGRequest posts cgRequestData()
calcComputationGraph ==
    /\ request' = <<cgRequestData(tree)>>
    /\ UNCHANGED <<fm, tree>>
    /\ UNCHANGED nonTreeVars

NextTree ==
    \/ onSelectRosLaunch
    \/ onSelectArg
    \/ onSelectValue
    \/ calcComputationGraph

SpecTree == InitTree /\ [][NextTree]_vars

(***************************************************************************)
(* The feature tree of value and userValue (MyTree, first version of the   *)
(* file).  Items are named by their path below the root <<>>.  d.children  *)
(* of the d3 hierarchy is null while an item is collapsed; data.children   *)
(* is always there.  An item can be clicked when it is drawn, that is when *)
(* the items above it are expanded.                                        *)
(***************************************************************************)
Root == <<>>
Features == {<<1>>, <<1, 1>>, <<1, 2>>, <<1, 1, 1>>}

dataChildren(n) == {x \in Features : parent(x) = n}
Inner == {n \in Features : dataChildren(n) # {}}

\* the items below n
Descendants(n) ==
    {x \in Features : Len(x) > Len(n) /\ SubSeq(x, 1, Len(n)) = n}

\* the item is drawn: every item above it is expanded
Drawn(t, d) == \A n \in Inner : d \in Descendants(n) => n \in t.expanded

\* data.value of an item or of the root, which no handler writes
valueOf(t, n) == IF n = Root THEN NULL ELSE t.value[n]

recalculateValue(t, d) ==
    IF valueOf(t, parent(d)) = F
    THEN [t EXCEPT !.value[d] = F]
    ELSE IF d \notin t.expanded THEN t
    ELSE [t EXCEPT !.value[d] =
             IF \E c \in dataChildren(d) : t.value[c] = T THEN T
             ELSE t.userValue[d]]

\* the loop of propagateSelection over the items above the source
RECURSIVE RecalculateUp(_, _)
RecalculateUp(t, n) ==
    IF n = Root THEN t
    ELSE RecalculateUp(recalculateValue(t, n), parent(n))

\* faulty variant: an item set to unknown sets the items below it to unknown
propagateSelectionForgets(t, source) ==
    LET n == parent(source)
        v == IF t.value[source] = T THEN F ELSE NULL
        t1 == IF features.xor[n]
              THEN [t EXCEPT
                      !.value = [x \in Features |->
                          IF x \in dataChildren(n) \ {source}
                          THEN v ELSE t.value[x]],
                      !.userValue = [x \in Features |->
                          IF x \in dataChildren(n) \ {source}
                          THEN v ELSE t.userValue[x]]]
              ELSE t
        t2 == RecalculateUp(t1, n)
        value == t2.value[source]
    IN  IF value = T THEN t2
        ELSE [t2 EXCEPT !.value = [x \in Features |->
                 IF x \in Descendants(source) THEN value
                 ELSE t2.value[x]]]

propagateSelection(t, source) ==
    LET n == parent(source)
        \* radio button behaviour
        v == IF t.value[source] = T THEN F ELSE NULL
        t1 == IF features.xor[n]
              THEN [t EXCEPT
                      !.value = [x \in Features |->
                          IF x \in dataChildren(n) \ {source}
                          THEN v ELSE t.value[x]],
                      !.userValue = [x \in Features |->
                          IF x \in dataChildren(n) \ {source}
                          THEN v ELSE t.userValue[x]]]
              ELSE t
        t2 == RecalculateUp(t1, n)
        value == t2.value[source]
    IN  IF value = T THEN t2
        ELSE [t2 EXCEPT !.value = [x \in Features |->
                 IF x \in Descendants(source)
                 THEN IF value = NULL THEN t2.userValue[x] ELSE value
                 ELSE t2.value[x]]]

\* value and userValue of d become true; an item that is not resolved asks
\* for a text first, and nothing happens when the prompt is cancelled
selectFeature(t, d, ans) ==
    IF ~features.resolved[d]
    THEN IF ans = NoText
         THEN [t |-> t, prompted |-> TRUE]
         ELSE [t |-> propagateSelection(
                         [t EXCEPT !.inputValue[d] = ans,
                                   !.value[d] = T, !.userValue[d] = T], d),
               prompted |-> TRUE]
    ELSE [t |-> propagateSelection(
                    [t EXCEPT !.value[d] = T, !.userValue[d] = T], d),
          prompted |-> FALSE]

\* both fields of d become v
setFeature(t, d, v) ==
    [t |-> propagateSelection([t EXCEPT !.value[d] = v, !.userValue[d] = v],
                              d),
     prompted |-> FALSE]

\* onFeatureLabelClick(event, d) for an item below the root
onFeatureLabelClick(t, d, ans) ==
    LET radio == features.xor[parent(d)]
    IN  IF t.userValue[d] # t.value[d]
        THEN [t |-> propagateSelection(
                        [t EXCEPT !.userValue[d] = t.value[d]], d),
              prompted |-> FALSE]
        ELSE IF radio
             THEN IF t.value[d] = T THEN setFeature(t, d, NULL)
                  ELSE selectFeature(t, d, ans)
             ELSE IF t.value[d] = T THEN setFeature(t, d, F)
                  ELSE IF t.value[d] = F THEN setFeature(t, d, NULL)
                  ELSE selectFeature(t, d, ans)

\* the feature model as fetched, drawn by $onInit: update sets value and
\* userValue to null where the data has none, and every item below the
\* root is collapsed
InitFeature ==
    /\ features \in [xor : [Inner \cup {Root} -> BOOLEAN],
                     resolved : [Features -> BOOLEAN]]
    /\ ft = [value |-> [d \in Features |-> NULL],
             userValue |-> [d \in Features |-> NULL],
             inputValue |-> [d \in Features |-> NoText],
             expanded |-> {}]
    /\ InitNameIdle
    /\ InitGraphIdle
    /\ InitTreeIdle
    /\ InitRaceIdle
    /\ InitUnknownIdle

\* a click on the label of item d
FeatureLabelClick(d, ans) ==
    LET r == onFeatureLabelClick(ft, d, ans)
    IN  /\ Drawn(ft, d)
        /\ r.prompted \/ ans = NoText
        /\ ft' = r.t
        /\ UNCHANGED features
        /\ UNCHANGED nonFeatureVars

onFeatureLabel == \E d \in Features, ans \in Answers : FeatureLabelClick(d, ans)

\* click(event, d): a click on the bullet of an item that has children
\* collapses or expands it
click ==
    \E d \in Inner :
        /\ Drawn(ft, d)
        /\ ft' = [ft EXCEPT !.expanded =
                     IF d \in ft.expanded THEN ft.expanded \ {d}
                     ELSE ft.expanded \cup {d}]
        /\ UNCHANGED features
        /\ UNCHANGED nonFeatureVars

NextFeature ==
    \/ onFeatureLabel
    \/ click

SpecFeature == InitFeature /\ [][NextFeature]_vars

(***************************************************************************)
(* C3: the graph setModel builds.                                          *)
(***************************************************************************)
\* the edge the claim lists for a link: publisher node->topic, subscriber
\* topic->node, client node->service, server service->node, write
\* node->parameter, read parameter->node
ClaimedEdge(l) ==
    LET n == <<"node", l.node_uid>>
    IN  CASE l.kind = "publishers"  -> <<n, <<"topic", l.uid>>>>
          [] l.kind = "subscribers" -> <<<<"topic", l.uid>>, n>>
          [] l.kind = "clients"     -> <<n, <<"service", l.uid>>>>
          [] l.kind = "servers"     -> <<<<"service", l.uid>>, n>>
          [] l.kind = "writes"      -> <<n, <<"param", l.uid>>>>
          [] l.kind = "reads"       -> <<<<"param", l.uid>>, n>>

NodesOfType(g, type) == {v \in g.nodes : resourceType(v) = type}

\* C3: after setModel the graph has exactly one node per node, topic,
\* service and parameter of the model, and for every link of the model the
\* edge in the direction that belongs to the link's kind.
C3_GraphOfModel ==
    model # <<>> =>
        LET m == model[1]
        IN  /\ {v[2] : v \in NodesOfType(graph, "node")} = m.nodes
            /\ {v[2] : v \in NodesOfType(graph, "topic")} = m.topics
            /\ {v[2] : v \in NodesOfType(graph, "service")} = m.services
            /\ {v[2] : v \in NodesOfType(graph, "param")} = m.parameters
            /\ Cardinality(graph.nodes)
                 = Cardinality(m.nodes) + Cardinality(m.topics)
                   + Cardinality(m.services) + Cardinality(m.parameters)
            /\ \A l \in m.links : ClaimedEdge(l) \in graph.edges
            /\ \A e \in graph.edges : \E l \in m.links : e = ClaimedEdge(l)

\* a model with a subscriber and a read has been set
C3_Witness ==
    /\ model # <<>>
    /\ \E l \in model[1].links : l.kind = "subscribers"
    /\ \E l \in model[1].links : l.kind = "reads"
    /\ Cardinality(graph.edges) = 2
    /\ Cardinality(graph.nodes) = 5

(***************************************************************************)
(* C4, C5: what updateVisibility leaves visible.                           *)
(***************************************************************************)
IsParam(v) == resourceType(v) = "param"

VisibleNodes == {v \in graph.nodes : nodeVisible[v]}
VisibleEdges == {e \in graph.edges : edgeVisible[e]}

\* C4: after updateVisibility with showParams false no parameter node and
\* no edge with a parameter end is visible; if moreover there is no focus,
\* every other node and every edge between two other nodes is visible.
C4_ParamsHidden ==
    (updated /\ ~showParams) =>
        /\ \A v \in graph.nodes : IsParam(v) => ~nodeVisible[v]
        /\ \A e \in graph.edges :
              (IsParam(e[1]) \/ IsParam(e[2])) => ~edgeVisible[e]
        /\ focus = NoNode =>
              /\ \A v \in graph.nodes : ~IsParam(v) => nodeVisible[v]
              /\ \A e \in graph.edges :
                    (~IsParam(e[1]) /\ ~IsParam(e[2])) => edgeVisible[e]

\* parameters are hidden, there is no focus, and the graph has an edge to a
\* parameter and an edge between a node and a topic
C4_Witness ==
    /\ updated
    /\ ~showParams
    /\ focus = NoNode
    /\ \E e \in graph.edges : IsParam(e[2])
    /\ \E e \in graph.edges : ~IsParam(e[1]) /\ ~IsParam(e[2])

Neighbours(v) ==
    {w \in graph.nodes : <<v, w>> \in graph.edges \/ <<w, v>> \in graph.edges}

\* C5: after updateVisibility with a focus, the visible nodes are the focus
\* and its neighbours in either direction, without the parameters when
\* these are hidden; the visible edges are the edges at the focus that pass
\* the parameter filter; the returned graph holds exactly those.
C5_Focus ==
    (updated /\ focus # NoNode) =>
        /\ VisibleNodes
             = {v \in {focus} \cup Neighbours(focus) :
                   showParams \/ ~IsParam(v)}
        /\ VisibleEdges
             = {e \in graph.edges :
                   /\ e[1] = focus \/ e[2] = focus
                   /\ showParams \/ (~IsParam(e[1]) /\ ~IsParam(e[2]))}
        /\ layout.nodes = VisibleNodes
        /\ layout.edges = VisibleEdges

\* the focus has an edge coming in and an edge going out, and some node of
\* the graph is not its neighbour
C5_Witness ==
    /\ updated
    /\ focus # NoNode
    /\ \E e \in graph.edges : e[1] = focus
    /\ \E e \in graph.edges : e[2] = focus
    /\ \E v \in graph.nodes : v # focus /\ v \notin Neighbours(focus)

(***************************************************************************)
(* C6: radio behaviour of the values of an arg.                            *)
(***************************************************************************)
SelectedValues(a) == {d \in ValuesOf(a) : tree.data[d] = T}

\* C6: from a tree in which every item is unknown, whatever is clicked and
\* however the prompts are answered, no arg has two value children whose
\* data.selected is true.
C6_AtMostOneValue ==
    \A a \in Args : Cardinality(SelectedValues(a)) <= 1

\* an arg whose value at index 1 is selected and whose value at index 0,
\* the default, has been deselected for it
C6_Witness ==
    \E a \in Args :
        /\ fm.defaultValue = 0
        /\ tree.previousValue[a] = 1
        /\ tree.data[<<a[1], a[2], 1>>] = T
        /\ tree.data[<<a[1], a[2], 0>>] = F

(***************************************************************************)
(* C7, C8: clicks on a launch file.                                        *)
(***************************************************************************)
\* the cycle unknown -> selected -> discarded -> unknown
CycleStep(v) ==
    CASE v = NULL -> T
      [] v = T    -> F
      [] v = F    -> NULL

\* C7: a click on a launch file whose ui.selected equals its data.selected
\* moves both one step along unknown -> selected -> discarded -> unknown.
C7_LaunchCycle ==
    [][\A l \in LaunchFiles :
          (ClickRosLaunch(l) /\ tree.ui[l] = tree.data[l]) =>
              /\ tree'.data[l] = CycleStep(tree.data[l])
              /\ tree'.ui[l] = CycleStep(tree.ui[l])]_vars

\* a launch file with args has been clicked to selected and on to discarded
C7_Witness ==
    /\ tree.data[<<1>>] = F
    /\ tree.ui[<<1>>] = F
    /\ \A a \in ArgsOf(<<1>>) : tree.data[a] = F

\* the step is a click on an arg or a value of launch file l
ClickBelow(l) ==
    \/ \E a \in ArgsOf(l), ans \in Answers : ClickArg(a, ans)
    \/ \E a \in ArgsOf(l) : \E d \in ValuesOf(a), ans \in Answers :
          ClickValue(d, ans)

\* the tree t without the ui.selected of item l
ExceptUi(t, l) == [t EXCEPT !.ui[l] = NULL]

\* C8: a launch file that becomes selected by a click on one of its args or
\* values keeps its ui.selected, which then differs from data.selected
\* (automatic); a click on a launch file in that state sets ui.selected to
\* data.selected and changes nothing else in the tree.
C8_AutomaticLaunch ==
    [][\A l \in LaunchFiles :
          /\ (ClickBelow(l) /\ tree.data[l] # T /\ tree'.data[l] = T) =>
                /\ tree'.ui[l] = tree.ui[l]
                /\ tree'.ui[l] # tree'.data[l]
          /\ (ClickRosLaunch(l) /\ tree.data[l] = T /\ tree.ui[l] # T) =>
                /\ tree'.ui[l] = tree.data[l]
                /\ ExceptUi(tree', l) = ExceptUi(tree, l)]_vars

\* a launch file is selected automatically: an arg of it was selected while
\* the launch file was unknown
C8_Witness ==
    /\ tree.data[<<1>>] = T
    /\ tree.ui[<<1>>] = NULL
    /\ \E a \in ArgsOf(<<1>>) : tree.data[a] = T

(***************************************************************************)
(* C9, C10: the body of the /cg/calculate request.                         *)
(***************************************************************************)
\* how often x occurs in sequence q
Count(q, x) == Cardinality({i \in DOMAIN q : q[i] = x})

LaunchNames(r) == [i \in DOMAIN r.launch |-> r.launch[i].name]

\* C9: cgRequestData lists every launch file whose selected is true once
\* in launch, every launch file whose selected is false once in discard,
\* a launch file whose selected is unknown in neither, and none in both.
C9_LaunchDiscard ==
    request # <<>> =>
        \A l \in LaunchFiles :
            /\ Count(LaunchNames(request[1]), dataName(l))
                 = IF tree.data[l] = T THEN 1 ELSE 0
            /\ Count(request[1].discard, dataName(l))
                 = IF tree.data[l] = F THEN 1 ELSE 0

\* a request built with one launch file selected, the other discarded
C9_Witness ==
    /\ request # <<>>
    /\ tree.data[<<1>>] = T
    /\ tree.data[<<2>>] = F

C11_QueryHighlights ==
    response # <<>> =>
        /\ queryObject.nodes = response[1].resources
        /\ queryObject.edges = {_addEdge(l) : l \in response[1].links}

(***************************************************************************)
(* C21: two queries in flight.                                             *)
(***************************************************************************)
\* what request r leaves highlighted when it is the only one processed
HighlightsOf(r) ==
    setHighlights(mapQuery([nodes |-> {}, edges |-> {}], graph, dataOf(r)),
                  graph, r.qid)

\* C21: when the query submitted last was sent while another request was in
\* flight, then once every response has been processed, in whatever order
\* they came, the highlighted nodes and edges are those of the query
\* submitted last.
C21_LastQueryWins ==
    (raced /\ inflight = {} /\ response # <<>>) =>
        queryObject = HighlightsOf(lastQuery[1])

(***************************************************************************)
(* C22: the candidates of a resource with an unknown name.                 *)
(***************************************************************************)
\* the elements of a list
Range(q) == {q[i] : i \in DOMAIN q}

\* the other resources of the kind whose name matches that of uid and, for
\* topics and services, whose types are those of uid
Matching(kind, uid) ==
    LET mapping == named[kind]
    IN  {<<kind, o>> : o \in
            {o \in DOMAIN mapping \ {uid} :
                /\ _nameMatch(split(mapping[uid].name), 0,
                              split(mapping[o].name), 0)
                /\ kind \in {"topic", "service"} =>
                      typesOf(kind, mapping[uid]) = typesOf(kind, mapping[o])}}

C12_ArgAssertions ==
    \A l \in LaunchFiles : \A a \in ArgsOf(l) :
        /\ tree.data[a] = F => tree.data[l] = F
        /\ tree.data[a] = T => tree.data[l] = T
        /\ tree.data[a] = NULL => tree.data[l] # F

\* a launch file was discarded after one of its args had a value selected:
\* the args are discarded with it
C12_Witness ==
    /\ tree.data[<<1>>] = F
    /\ \A a \in ArgsOf(<<1>>) : tree.data[a] = F
    /\ \E a \in ArgsOf(<<1>>) : tree.previousValue[a] # NoIndex

(***************************************************************************)
(* C13: a selected arg and its values.                                     *)
(***************************************************************************)
\* C13: after every click, every arg whose data.selected is true has exactly
\* one value whose data.selected is true, and its other values are false.
C13_ExactlyOneValue ==
    \A a \in Args :
        tree.data[a] = T =>
            /\ Cardinality(SelectedValues(a)) = 1
            /\ \A d \in ValuesOf(a) : tree.data[d] \in {T, F}

(***************************************************************************)
(* C14: the text typed at the prompt and the request.                      *)
(***************************************************************************)
\* C14: when an unresolved value the user typed a text for is the selected
\* value of a selected arg of a selected launch file, the request built by
\* cgRequestData carries a value for that arg that is not null and is the
\* text the user typed.
C14_RequestCarriesText ==
    request # <<>> =>
        \A i \in DOMAIN request[1].launch :
            LET e == request[1].launch[i]
                l == CHOOSE x \in LaunchFiles : dataName(x) = e.name
            IN  \A a \in ArgsOf(l) : \A d \in ValuesOf(a) :
                    (/\ tree.data[a] = T
                     /\ tree.data[d] = T
                     /\ ~fm.resolved[d[3]]
                     /\ tree.value[d] # NoText)
                    => /\ e.args[dataName(a)] # NoText
                       /\ e.args[dataName(a)] = tree.value[d]

(***************************************************************************)
(* C15: a cancelled prompt of onSelectValue.                               *)
(***************************************************************************)
\* C15: when the prompt a click on an unresolved value opens is cancelled,
\* data.selected, ui.selected, ui.value and ui.name of every item are what
\* they were before the click.
C15_CancelKeepsTree ==
    [][\A d \in Values :
          (ClickValue(d, NoText) /\ SelectValue(tree, d, NoText).prompted)
              => tree' = tree]_vars

\* an unresolved value is selected with a text the user typed: a click on
\* it asks again, and a cancelled prompt leaves this state
C15_Witness ==
    \E d \in Values :
        /\ ~resolved(d)
        /\ tree.data[d] = T
        /\ tree.ui[d] = T
        /\ tree.value[d] # NoText
        /\ SelectValue(tree, d, NoText).prompted

(***************************************************************************)
(* C16: clicks below a discarded launch file.                              *)
(***************************************************************************)
\* data.selected and ui.selected of every item stay as they are
SameSelected ==
    /\ tree'.data = tree.data
    /\ tree'.ui = tree.ui

\* C16: while a launch file is discarded, a click on one of its args or on
\* one of their values opens no prompt and changes no data.selected and no
\* ui.selected in the tree.
C16_DiscardedFrame ==
    [][\A l \in LaunchFiles :
          tree.data[l] = F =>
              \A a \in ArgsOf(l) : \A ans \in Answers :
                  /\ ~SelectArg(tree, a, ans).prompted
                  /\ ClickArg(a, ans) => SameSelected
                  /\ \A d \in ValuesOf(a) :
                        /\ ~SelectValue(tree, d, ans).prompted
                        /\ ClickValue(d, ans) => SameSelected]_vars

\* a launch file is discarded with all its args, their values are unknown,
\* and one of the values has a text the user typed
C16_Witness ==
    /\ tree.data[<<1>>] = F
    /\ \A a \in ArgsOf(<<1>>) :
          /\ tree.data[a] = F
          /\ \A d \in ValuesOf(a) : tree.data[d] = NULL
    /\ \E d \in Values : tree.value[d] # NoText

(***************************************************************************)
(* C17: the value an arg gets when it is selected again.                   *)
(***************************************************************************)
\* the index propagateArgSelection picks for arg a
Reselected(a) ==
    IF tree.previousValue[a] # NoIndex THEN tree.previousValue[a]
    ELSE defaultIndex

\* C17: ui.previousValue of an arg is the value that was selected for it
\* last (it follows the selected value and is kept when none is selected),
\* and a click that selects the arg selects that value, or the value at
\* index defaultValue (0 when there is none) when the arg never had one.
C17_Reselect ==
    [][\A a \in Args :
          /\ \A d \in ValuesOf(a) :
                tree'.data[d] = T => tree'.previousValue[a] = d[3]
          /\ (\A d \in ValuesOf(a) : tree'.data[d] # T)
                => tree'.previousValue[a] = tree.previousValue[a]
          /\ \A ans \in Answers :
                (ClickArg(a, ans) /\ tree.data[a] = NULL)
                    => tree'.data[<<a[1], a[2], Reselected(a)>>] = T]_vars

(***************************************************************************)
(* C18: the siblings of an arg that is selected.                           *)
(***************************************************************************)
\* the step is a click that selects arg a: on the arg while it is not
\* selected, or on one of its values
Selecting(a) ==
    \E ans \in Answers :
        \/ ClickArg(a, ans) /\ tree.data[a] # T
        \/ \E d \in ValuesOf(a) : ClickValue(d, ans)

\* arg b and its values keep data.selected and ui.selected
KeptArg(b) ==
    /\ tree'.data[b] = tree.data[b]
    /\ tree'.ui[b] = tree.ui[b]
    /\ \A d \in ValuesOf(b) :
          /\ tree'.data[d] = tree.data[d]
          /\ tree'.ui[d] = tree.ui[d]

\* C18: a click that selects an arg or one of its values leaves every other
\* arg of the launch file that is already selected, and the selected state
\* of each value of that arg, as it was.
C18_SiblingsKept ==
    [][\A a \in Args : \A b \in ArgsOf(parent(a)) \ {a} :
          (tree.data[b] = T /\ Selecting(a)) => KeptArg(b)]_vars

\* two args of a launch file are selected, the first on the value at
\* index 1, the second on the value at index 0
C18_Witness ==
    /\ tree.data[<<1, 1>>] = T
    /\ tree.data[<<1, 1, 1>>] = T
    /\ tree.data[<<1, 2>>] = T
    /\ tree.data[<<1, 2, 0>>] = T

(***************************************************************************)
(* C19: discarding an item of the value/userValue tree and setting it      *)
(* back to unknown.                                                        *)
(***************************************************************************)
\* C19: a click that discards an item (its value becomes false) sets the
\* value of every item below it to false and leaves the userValue of every
\* item below it as it was; a click that sets a discarded item back to
\* unknown gives every item below it its own userValue as value.
C19_DiscardRestore ==
    [][\A d \in Features : \A ans \in Answers :
          FeatureLabelClick(d, ans) =>
              /\ (ft.value[d] # F /\ ft'.value[d] = F) =>
                    \A x \in Descendants(d) :
                        /\ ft'.value[x] = F
                        /\ ft'.userValue[x] = ft.userValue[x]
              /\ (ft.value[d] = F /\ ft'.value[d] = NULL) =>
                    \A x \in Descendants(d) :
                        /\ ft'.value[x] = ft.userValue[x]
                        /\ ft'.userValue[x] = ft.userValue[x]]_vars

\* without radio items, an item has been discarded and set back to
\* unknown: it is unknown while an item below it that the user had selected
\* is selected again, and another that the user had discarded is discarded
\* again
C19_Witness ==
    /\ ~features.xor[Root]
    /\ ~features.xor[<<1>>]
    /\ ft.value[<<1>>] = NULL
    /\ ft.userValue[<<1>>] = NULL
    /\ ft.value[<<1, 1>>] = T
    /\ ft.userValue[<<1, 1>>] = T
    /\ ft.value[<<1, 2>>] = F
    /\ ft.userValue[<<1, 2>>] = F

(***************************************************************************)
(* C20: the selected node of the computation graph.                        *)
(***************************************************************************)
\* C20: after every step at most one node carries the class "selected";
\* onSelection on the node that is selected leaves no node selected, and
\* onSelection on any other node leaves that node as the only selected one.
C20_OneSelection ==
    [][/\ Cardinality(selectedClass') <= 1
       /\ \A id \in graph.nodes :
             onSelection(id) =>
                 IF selection = id
                 THEN selection' = NoNode /\ selectedClass' = {}
                 ELSE selection' = id /\ selectedClass' = {id}]_vars

\* a node is selected while another node, selected before it, is the focus
C20_Witness ==
    /\ selection # NoNode
    /\ selectedClass = {selection}
    /\ focus # NoNode
    /\ focus # selection

(***************************************************************************)
(* SpecName: the two names are drawn from Names, then matched as           *)
(* _connectUnknown does it.                                                *)
(***************************************************************************)
InitName ==
    /\ a1 \in Names
    /\ a2 \in Names
    /\ matched = <<>>
    /\ InitGraphIdle
    /\ InitTreeIdle
    /\ InitFeatureIdle
    /\ InitRaceIdle
    /\ InitUnknownIdle

MatchNames ==
    /\ matched = <<>>
    /\ matched' = <<_nameMatch(split(a1), 0, split(a2), 0)>>
    /\ UNCHANGED <<a1, a2>>
    /\ UNCHANGED nonNameVars

NextName == MatchNames

SpecName == InitName /\ [][NextName]_vars

(***************************************************************************)
(* C1: the table of tests in the comment above _nameMatch.                 *)
(***************************************************************************)
NameTests == {
    << <<"ns", "a">>,        <<"ns", "a">>,             TRUE  >>,
    << <<"ns", "a">>,        <<"a">>,                   FALSE >>,
    << <<"?", "a">>,         <<"a">>,                   TRUE  >>,
    << <<"?", "a">>,         <<"ns", "a">>,             TRUE  >>,
    << <<"?", "a">>,         <<"ns", "ns", "a">>,       TRUE  >>,
    << <<"a">>,              <<"?", "a">>,              TRUE  >>,
    << <<"ns", "a">>,        <<"?", "a">>,              TRUE  >>,
    << <<"ns", "ns", "a">>,  <<"?", "a">>,              TRUE  >>,
    << <<"ns", "?", "a">>,   <<"ns", "a">>,             TRUE  >>,
    << <<"ns", "?", "a">>,   <<"ns", "ns", "a">>,       TRUE  >>,
    << <<"ns", "?", "a">>,   <<"ns", "ns", "ns", "a">>, TRUE  >>,
    << <<"ns", "?", "b">>,   <<"ns", "a">>,             FALSE >>,
    << <<"ns", "?">>,        <<"a">>,                   FALSE >>,
    << <<"ns", "?">>,        <<"ns", "a">>,             TRUE  >>,
    << <<"ns", "?">>,        <<"ns", "ns", "a">>,       TRUE  >>,
    << <<"?">>,              <<"a">>,                   TRUE  >>,
    << <<"?">>,              <<"ns", "a">>,             TRUE  >>,
    << <<"?">>,              <<"?">>,                   TRUE  >>,
    << <<"ns", "?">>,        <<"?", "a">>,              TRUE  >>,
    << <<"ns", "?">>,        <<"ns", "?">>,             TRUE  >>,
    << <<"ns", "?">>,        <<"ns", "?", "a">>,        TRUE  >>,
    << <<"?", "?">>,         <<"a">>,                   TRUE  >>,
    << <<"?", "?">>,         <<"ns", "a">>,             TRUE  >>,
    << <<"?", "?">>,         <<"ns", "ns", "a">>,       TRUE  >>
}

\* C1: for each of the 24 pairs of names listed in the comment above
\* _nameMatch, the call on the two split names returns the listed result.
C1_NameTestsPass ==
    matched # <<>> =>
        \A t \in NameTests : (a1 = t[1] /\ a2 = t[2]) => matched[1] = t[3]

\* the test '/ns/?/a' against '/ns/ns/ns/a' has been run
C1_Witness ==
    /\ a1 = <<"ns", "?", "a">>
    /\ a2 = <<"ns", "ns", "ns", "a">>
    /\ matched = <<TRUE>>

(***************************************************************************)
(* C2: one '?' that is not the last segment stands for any run of          *)
(* segments, in either argument.                                           *)
(***************************************************************************)
Literal(name) == \A i \in 1..Len(name) : name[i] # "?"

\* name is P/?/S with P and S literal and S not empty
OneInnerWildcard(name) ==
    \E q \in 1..(Len(name) - 1) :
        /\ name[q] = "?"
        /\ \A i \in (1..Len(name)) \ {q} : name[i] # "?"

WildcardAt(name) == CHOOSE q \in 1..Len(name) : name[q] = "?"

\* lit = P/M/S for some run of segments M, where pattern = P/?/S
Expands(pattern, lit) ==
    LET q == WildcardAt(pattern)
        P == SubSeq(pattern, 1, q - 1)
        S == SubSeq(pattern, q + 1, Len(pattern))
    IN  \E m \in 0..Len(lit) :
            /\ Len(lit) = Len(P) + m + Len(S)
            /\ SubSeq(lit, 1, Len(P)) = P
            /\ SubSeq(lit, Len(P) + m + 1, Len(lit)) = S

\* C2: a name P/?/S (P, S literal, S not empty) matches a literal name N
\* exactly when N = P/M/S for some run M of zero or more segments, and the
\* result is the same when the name with the '?' is the second argument.
C2_InnerWildcard ==
    matched # <<>> =>
        /\ (OneInnerWildcard(a1) /\ Literal(a2))
                => (matched[1] <=> Expands(a1, a2))
        /\ (Literal(a1) /\ OneInnerWildcard(a2))
                => (matched[1] <=> Expands(a2, a1))

\* a literal name matched a name whose '?' stands for two segments
C2_Witness ==
    /\ a1 = <<"ns", "ns", "b", "a">>
    /\ a2 = <<"ns", "?", "a">>
    /\ matched = <<TRUE>>

====
